---- MODULE Spec2Model ----
(***************************************************************************)
(* IP-Landing-API (src/app.py, src/utils.py, src/config.py).               *)
(*                                                                         *)
(* The visitor log (table visitor_logs), the request handlers that write   *)
(* it (home, submit), the two admin operations that change it              *)
(* (refresh_locations, cleanup_old_visits), and the helpers they call.     *)
(* Python strings are sequences of one-character strings; the clock is in  *)
(* minutes; the application and the database read the same clock.          *)
(***************************************************************************)
EXTENDS Integers, Sequences, FiniteSets, TLC

VARIABLES store, nextId, now, last

vars == <<store, nextId, now, last>>

(***************************************************************************)
(* Values                                                                  *)
(***************************************************************************)

\* Python None / SQL NULL where a string (sequence of characters) is expected:
\* a one-element sequence whose element is no character.
None == <<"None">>

\* SQL NULL in an atomic column (country, latitude).
NULL == "NULL"

\* SQL NULL in the JSONB column form_data.
NullJson == [isnull |-> TRUE]

LowerSeq == <<"a","b","c","d","e","f","g","h","i","j","k","l","m",
              "n","o","p","q","r","s","t","u","v","w","x","y","z">>

UpperSeq == <<"A","B","C","D","E","F","G","H","I","J","K","L","M",
              "N","O","P","Q","R","S","T","U","V","W","X","Y","Z">>

DigitSeq == <<"0","1","2","3","4","5","6","7","8","9">>

Range(s) == {s[i] : i \in 1..Len(s)}

LowerAlpha == Range(LowerSeq)

UpperAlpha == Range(UpperSeq)

Digits == Range(DigitSeq)

\* str.lower() on one character
LowerChar(c) ==
    IF c \in UpperAlpha
    THEN LowerSeq[CHOOSE i \in 1..26 : UpperSeq[i] = c]
    ELSE c

\* str.lower()
Lower(s) == [i \in 1..Len(s) |-> LowerChar(s[i])]

\* `sub in s` for Python strings
Contains(sub, s) ==
    \E i \in 0..(Len(s) - Len(sub)) :
        \A j \in 1..Len(sub) : s[i + j] = sub[j]

\* s[:n]
Prefix(s, n) == SubSeq(s, 1, IF Len(s) < n THEN Len(s) ELSE n)

Whitespace == {" ", "\t", "\n", "\r"}

\* str.strip()
RECURSIVE LStrip(_)
LStrip(s) == IF s # <<>> /\ Head(s) \in Whitespace THEN LStrip(Tail(s)) ELSE s

RECURSIVE RStrip(_)
RStrip(s) ==
    IF s # <<>> /\ s[Len(s)] \in Whitespace
    THEN RStrip(SubSeq(s, 1, Len(s) - 1))
    ELSE s

Strip(s) == RStrip(LStrip(s))

\* Python truthiness of an optional string: None and '' are falsy
TruthyStr(s) == s # None /\ s # <<>>

(***************************************************************************)
(* Configuration (src/config.py).  The two rate-limiting values are read   *)
(* from the environment; the model runs a deployment that sets             *)
(* MAX_FORM_SUBMISSIONS_PER_IP_PER_HOUR to a small value.                  *)
(***************************************************************************)
VISITOR_LOG_COOLDOWN_MINUTES == 5

MAX_FORM_SUBMISSIONS_PER_IP_PER_HOUR == 2

MIN_NAME_LENGTH == 2

MAX_NAME_LENGTH == 100

MAX_EMAIL_LENGTH == 255

MAX_MESSAGE_LENGTH == 1000

\* INTERVAL '1 hour', in minutes
HourMinutes == 60

\* INTERVAL '90 days', in minutes
RetentionMinutes == 129600

\* LIMIT 20 of refresh_locations
RefreshLimit == 20

\* user_agent[:500]
UserAgentLimit == 500

(***************************************************************************)
(* get_client_ip                                                           *)
(***************************************************************************)

\* forwarded_for.split(',')[0]
FirstEntry(s) ==
    IF \E i \in 1..Len(s) : s[i] = ","
    THEN SubSeq(s, 1, (CHOOSE i \in 1..Len(s) :
                          s[i] = "," /\ \A j \in 1..(i-1) : s[j] # ",") - 1)
    ELSE s

\* variant: X-Real-IP read before X-Forwarded-For
get_client_ip_real_first(request) ==
    IF TruthyStr(request.real_ip) THEN request.real_ip
    ELSE IF TruthyStr(request.xff) THEN Strip(FirstEntry(request.xff))
    ELSE request.remote_addr

\* request == [xff, real_ip, remote_addr], a missing header being None
get_client_ip(request) ==
    IF TruthyStr(request.xff) THEN Strip(FirstEntry(request.xff))
    ELSE IF TruthyStr(request.real_ip) THEN request.real_ip
    ELSE request.remote_addr

(***************************************************************************)
(* get_location_data                                                       *)
(*                                                                         *)
(* A Python value is a record tagged with its type.  A dict carries the    *)
(* keys the handlers read: country_name and latitude (NULL when the key is *)
(* absent, as dict.get returns None), whether it has the key 'error', and  *)
(* its number of keys (an empty dict is falsy).  After 'error' in data is  *)
(* true the handler calls data.get, which a list or a str does not have:   *)
(* the AttributeError is caught and None returned all the same.            *)
(***************************************************************************)
PyNone == [type |-> "None"]

PyDict(n, err, country, lat) ==
    [type |-> "dict", nkeys |-> n, error |-> err,
     country_name |-> country, latitude |-> lat]

PyList(n, err) == [type |-> "list", nkeys |-> n, error |-> err]

\* a str of n characters; `error` is whether it contains 'error'
PyStr(n, err) == [type |-> "str", nkeys |-> n, error |-> err]

\* null, true, false or a number of a JSON body
PyScalar == [type |-> "scalar"]

\* bool(v)
Truthy(v) ==
    CASE v.type = "None" -> FALSE
      [] v.type = "dict" -> v.nkeys > 0
      [] v.type = "list" -> v.nkeys > 0
      [] v.type = "str" -> v.nkeys > 0
      [] OTHER -> FALSE

IP_LOOPBACK4 == <<"1","2","7",".","0",".","0",".","1">>

IP_LOCALHOST == <<"l","o","c","a","l","h","o","s","t">>

IP_LOOPBACK6 == <<":",":","1">>

\* the dict literal of get_location_data: 13 keys, latitude 0.0
LocalRecord == PyDict(13, FALSE, "Local", "0.0")

\* What requests.get(...) does: it raises, or it returns a response with a
\* status code and a body that response.json() parses or rejects.
RespTimeout == [kind |-> "timeout"]

RespConnectionError == [kind |-> "connection_error"]

HttpResponse(status, isjson, value) ==
    [kind |-> "response", status_code |-> status, json |-> isjson, value |-> value]

\* 'error' in data: a key of a dict, an element of a list, a substring of a
\* str, a TypeError otherwise
ErrorInRaises(data) == data.type \notin {"dict", "list", "str"}

\* variant: 'localhost' missing from the list of local addresses
get_location_data_named(ip_address, upstream) ==
    IF ~TruthyStr(ip_address) \/ ip_address \in {IP_LOOPBACK4, IP_LOOPBACK6}
    THEN [result |-> LocalRecord, calls |-> 0]
    ELSE [calls |-> 1,
          result |-> IF upstream.kind # "response" THEN PyNone
                     ELSE IF upstream.status_code # 200 THEN PyNone
                     ELSE IF ~upstream.json THEN PyNone
                     ELSE IF ErrorInRaises(upstream.value) THEN PyNone
                     ELSE IF upstream.value.error THEN PyNone
                     ELSE upstream.value]

get_location_data(ip_address, upstream) ==
    IF ~TruthyStr(ip_address)
       \/ ip_address \in {IP_LOOPBACK4, IP_LOCALHOST, IP_LOOPBACK6}
    THEN [result |-> LocalRecord, calls |-> 0]
    ELSE [calls |-> 1,
          result |->
            IF upstream.kind # "response" THEN PyNone        \* except branches
            ELSE IF upstream.status_code # 200 THEN PyNone   \* 429 and others
            ELSE IF ~upstream.json THEN PyNone               \* json() raises
            ELSE IF ErrorInRaises(upstream.value) THEN PyNone
            ELSE IF upstream.value.error THEN PyNone
            ELSE upstream.value]

(***************************************************************************)
(* src/utils.py                                                            *)
(***************************************************************************)

\* the characters re.sub(r'[<>"\';\\]', '', ...) removes
HarmfulChars == {"<", ">", "\"", "'", ";", "\\"}

IsSafeChar(c) == c \notin HarmfulChars

UNKNOWN_AGENT == <<"U","n","k","n","o","w","n">>

sanitize_user_agent(user_agent) ==
    IF ~TruthyStr(user_agent)
    THEN UNKNOWN_AGENT
    ELSE Prefix(SelectSeq(user_agent, IsSafeChar), UserAgentLimit)

\* [a-zA-Z0-9._%+-]
EmailLocalChars == LowerAlpha \cup UpperAlpha \cup Digits \cup {".", "_", "%", "+", "-"}

\* [a-zA-Z0-9.-]
EmailDomainChars == LowerAlpha \cup UpperAlpha \cup Digits \cup {".", "-"}

AllIn(s, lo, hi, chars) == \A i \in lo..hi : s[i] \in chars

\* ^[a-zA-Z0-9._%+-]+@[a-zA-Z0-9.-]+\.[a-zA-Z]{2,}  matched up to position n
EmailPatternUpTo(s, n) ==
    \E a \in 2..n : \E d \in (a + 2)..(n - 2) :
        /\ s[a] = "@"
        /\ AllIn(s, 1, a - 1, EmailLocalChars)
        /\ AllIn(s, a + 1, d - 1, EmailDomainChars)
        /\ s[d] = "."
        /\ AllIn(s, d + 1, n, LowerAlpha \cup UpperAlpha)

\* re.match(pattern, email): $ matches at the end and before a final newline
EmailPatternMatches(s) ==
    \/ EmailPatternUpTo(s, Len(s))
    \/ Len(s) > 0 /\ s[Len(s)] = "\n" /\ EmailPatternUpTo(s, Len(s) - 1)

validate_email_format(email) ==
    IF ~TruthyStr(email) \/ Len(email) > 255
    THEN FALSE
    ELSE EmailPatternMatches(email)

\* [\x00-\x08\x0B\x0C\x0E-\x1F\x7F], each character written by its code
ControlChars ==
    {"\\x00", "\\x01", "\\x02", "\\x03", "\\x04", "\\x05", "\\x06", "\\x07",
     "\\x08", "\\x0B", "\\x0C", "\\x0E", "\\x0F", "\\x10", "\\x11", "\\x12",
     "\\x13", "\\x14", "\\x15", "\\x16", "\\x17", "\\x18", "\\x19", "\\x1A",
     "\\x1B", "\\x1C", "\\x1D", "\\x1E", "\\x1F", "\\x7F"}

IsNotControlChar(c) == c \notin ControlChars

\* clean_form_data on one value
CleanValue(value) == SelectSeq(Strip(value), IsNotControlChar)

\* clean_form_data on {"name", "email", "message"}
clean_form_data(data) ==
    [name |-> CleanValue(data.name),
     email |-> CleanValue(data.email),
     message |-> CleanValue(data.message)]

BotIndicators ==
    {<<"b","o","t">>,
     <<"c","r","a","w","l","e","r">>,
     <<"s","p","i","d","e","r">>,
     <<"s","c","r","a","p","e","r">>,
     <<"c","u","r","l">>,
     <<"w","g","e","t">>,
     <<"p","y","t","h","o","n","-","r","e","q","u","e","s","t","s">>,
     <<"h","t","t","p">>,
     <<"m","o","n","i","t","o","r">>,
     <<"t","e","s","t">>,
     <<"s","c","a","n">>}

detect_bot_user_agent(user_agent) ==
    IF ~TruthyStr(user_agent)
    THEN FALSE
    ELSE \E indicator \in BotIndicators : Contains(indicator, Lower(user_agent))

(***************************************************************************)
(* The table visitor_logs (init_db).  A row keeps the columns the          *)
(* operations read or write differently: id, ip_address, two geolocation   *)
(* columns (country, latitude), user_agent, form_data and timestamp.       *)
(***************************************************************************)

\* A database call of a handler either works or raises psycopg2.Error at the
\* step named: get_db_connection(), the SELECT, or the INSERT/UPDATE/DELETE
\* (with its commit).
DbOk == "ok"

DbConnectError == "connect_error"

DbQueryError == "query_error"

DbWriteError == "write_error"

\* variant: the count without `AND timestamp > NOW() - INTERVAL '1 hour'`
SubmissionCount_ever(ip_address) ==
    Cardinality({r \in store : r.ip_address = ip_address /\ r.form_data # NullJson})

\* SELECT COUNT(*) ... WHERE ip_address = %s AND form_data IS NOT NULL
\*                     AND timestamp > NOW() - INTERVAL '1 hour'
SubmissionCount(ip_address) ==
    Cardinality({r \in store : /\ r.ip_address = ip_address
                               /\ r.form_data # NullJson
                               /\ r.timestamp > now - HourMinutes})

\* variant: the limit compared with > instead of >=
check_form_submission_rate_limit_above(ip_address, db) ==
    IF db # DbOk
    THEN FALSE
    ELSE SubmissionCount(ip_address) > MAX_FORM_SUBMISSIONS_PER_IP_PER_HOUR

\* variant: a check that cannot be evaluated rejects the submission
check_form_submission_rate_limit_closed(ip_address, db) ==
    IF db # DbOk
    THEN TRUE
    ELSE SubmissionCount(ip_address) >= MAX_FORM_SUBMISSIONS_PER_IP_PER_HOUR

\* TRUE when the submission is to be rejected; FALSE when the check fails
check_form_submission_rate_limit(ip_address, db) ==
    IF db # DbOk
    THEN FALSE
    ELSE SubmissionCount(ip_address) >= MAX_FORM_SUBMISSIONS_PER_IP_PER_HOUR

\* variant: the dedup query without `AND form_data IS NULL`
RecentVisits_any(ip_address) ==
    Cardinality({r \in store : /\ r.ip_address = ip_address
                               /\ r.timestamp > now - VISITOR_LOG_COOLDOWN_MINUTES})

\* SELECT COUNT(*) ... WHERE ip_address = %s
\*     AND timestamp > NOW() - INTERVAL '<cooldown> minutes' AND form_data IS NULL
RecentVisits(ip_address) ==
    Cardinality({r \in store : /\ r.ip_address = ip_address
                               /\ r.timestamp > now - VISITOR_LOG_COOLDOWN_MINUTES
                               /\ r.form_data = NullJson})

\* location_data.get(...) raises AttributeError on a value that is no dict
GetRaises(location_data) == Truthy(location_data) /\ location_data.type # "dict"

\* float(x) if location_data and x else None: 0.0 and None are falsy
LatitudeColumn(location_data) ==
    IF Truthy(location_data) /\ location_data.latitude \notin {NULL, "0.0"}
    THEN location_data.latitude
    ELSE NULL

\* the VALUES tuple of the INSERT
NewRow(ip_address, location_data, user_agent, form_data) ==
    [id |-> nextId,
     ip_address |-> ip_address,
     country |-> IF Truthy(location_data) THEN location_data.country_name ELSE NULL,
     latitude |-> LatitudeColumn(location_data),
     user_agent |-> IF TruthyStr(user_agent)
                    THEN Prefix(user_agent, UserAgentLimit) ELSE None,
     form_data |-> form_data,
     timestamp |-> now]

\* variant: get_db_connection() called outside the try, so that a failed
\* connection leaves log_visitor as an exception
log_visitor_uncaught(ip_address, location_data, user_agent, form_data, db) ==
    IF ~TruthyStr(ip_address)
    THEN [outcome |-> "no_ip", rows |-> {}]
    ELSE IF db = DbConnectError
    THEN [outcome |-> "raised", rows |-> {}]
    ELSE IF db = DbQueryError
    THEN [outcome |-> "query_error", rows |-> {}]
    ELSE IF RecentVisits(ip_address) > 0 /\ form_data = NullJson
    THEN [outcome |-> "skipped", rows |-> {}]
    ELSE IF GetRaises(location_data)
    THEN [outcome |-> "error", rows |-> {}]
    ELSE IF db = DbWriteError
    THEN [outcome |-> "write_error", rows |-> {}]
    ELSE [outcome |-> "inserted",
          rows |-> {NewRow(ip_address, location_data, user_agent, form_data)}]

\* variant: log_visitor without `if not ip_address: return`
log_visitor_any_address(ip_address, location_data, user_agent, form_data, db) ==
    IF db = DbConnectError
    THEN [outcome |-> "connect_error", rows |-> {}]
    ELSE IF db = DbQueryError
    THEN [outcome |-> "query_error", rows |-> {}]
    ELSE IF RecentVisits(ip_address) > 0 /\ form_data = NullJson
    THEN [outcome |-> "skipped", rows |-> {}]
    ELSE IF GetRaises(location_data)
    THEN [outcome |-> "error", rows |-> {}]
    ELSE IF db = DbWriteError
    THEN [outcome |-> "write_error", rows |-> {}]
    ELSE [outcome |-> "inserted",
          rows |-> {NewRow(ip_address, location_data, user_agent, form_data)}]

\* What log_visitor does with the store; form_data is NullJson for None.
\* "outcome" names the place where it returned.
log_visitor(ip_address, location_data, user_agent, form_data, db) ==
    IF ~TruthyStr(ip_address)
    THEN [outcome |-> "no_ip", rows |-> {}]
    ELSE IF db = DbConnectError
    THEN [outcome |-> "connect_error", rows |-> {}]
    ELSE IF db = DbQueryError
    THEN [outcome |-> "query_error", rows |-> {}]
    ELSE IF RecentVisits(ip_address) > 0 /\ form_data = NullJson
    THEN [outcome |-> "skipped", rows |-> {}]
    ELSE IF GetRaises(location_data)
    THEN [outcome |-> "error", rows |-> {}]
    ELSE IF db = DbWriteError
    THEN [outcome |-> "write_error", rows |-> {}]
    ELSE [outcome |-> "inserted",
          rows |-> {NewRow(ip_address, location_data, user_agent, form_data)}]

(***************************************************************************)
(* Field validation of submit                                              *)
(***************************************************************************)
NameFillers == {" ", "-", "'", "."}

IsNotNameFiller(c) == c \notin NameFillers

\* name.replace(' ', '').replace('-', '').replace("'", '').replace('.', '').isalpha()
NameIsAlpha(name) ==
    LET rest == SelectSeq(name, IsNotNameFiller)
    IN  rest # <<>> /\ \A i \in 1..Len(rest) : rest[i] \in LowerAlpha \cup UpperAlpha

spam_keywords ==
    {<<"c","l","i","c","k"," ","h","e","r","e">>,
     <<"b","u","y"," ","n","o","w">>,
     <<"f","r","e","e"," ","m","o","n","e","y">>,
     <<"w","i","n"," ","n","o","w">>,
     <<"u","r","g","e","n","t">>,
     <<"l","i","m","i","t","e","d"," ","t","i","m","e">>,
     <<"a","c","t"," ","n","o","w">>}

\* variant: (name + email + message).lower()
CombinedText_concatenated(name, email, message) ==
    Lower(name \o email \o message)

\* (name + ' ' + email + ' ' + message).lower()
CombinedText(name, email, message) ==
    Lower(name \o <<" ">> \o email \o <<" ">> \o message)

HasSpamKeyword(text) == \E keyword \in spam_keywords : Contains(keyword, text)

\* any(char * 5 in combined_text for char in 'abc...xyz0123456789')
HasRepeatedChars(text) ==
    \E char \in LowerAlpha \cup Digits : Contains([i \in 1..5 |-> char], text)

ERR_RATE == "Too many form submissions. Please try again later."

ERR_NAME_SHORT == "Name must be at least 2 characters long"

ERR_NAME_LONG == "Name must be less than 100 characters"

ERR_NAME_CHARS == "Name contains invalid characters"

ERR_EMAIL_REQUIRED == "Email address is required"

ERR_EMAIL_INVALID == "Please provide a valid email address"

ERR_EMAIL_LONG == "Email must be less than 255 characters"

ERR_MESSAGE_LONG == "Message must be less than 1000 characters"

ERR_SPAM == "Message contains suspicious content"

ERR_PATTERN == "Message contains suspicious patterns"

NameErrors(name) ==
    IF name = <<>> \/ Len(name) < MIN_NAME_LENGTH THEN <<ERR_NAME_SHORT>>
    ELSE IF Len(name) > MAX_NAME_LENGTH THEN <<ERR_NAME_LONG>>
    ELSE IF ~NameIsAlpha(name) THEN <<ERR_NAME_CHARS>>
    ELSE <<>>

EmailErrors(email) ==
    IF email = <<>> THEN <<ERR_EMAIL_REQUIRED>>
    ELSE IF ~validate_email_format(email) THEN <<ERR_EMAIL_INVALID>>
    ELSE IF Len(email) > MAX_EMAIL_LENGTH THEN <<ERR_EMAIL_LONG>>
    ELSE <<>>

MessageErrors(message) ==
    IF message # <<>> /\ Len(message) > MAX_MESSAGE_LENGTH
    THEN <<ERR_MESSAGE_LONG>>
    ELSE <<>>

SpamErrors(name, email, message) ==
    (IF HasSpamKeyword(CombinedText(name, email, message))
     THEN <<ERR_SPAM>> ELSE <<>>)
    \o (IF HasRepeatedChars(CombinedText(name, email, message))
        THEN <<ERR_PATTERN>> ELSE <<>>)

\* variant: validation that stops at the first failed check
ValidationErrors_first(name, email, message) ==
    LET all == NameErrors(name) \o EmailErrors(email) \o MessageErrors(message)
                   \o SpamErrors(name, email, message)
    IN  IF all = <<>> THEN <<>> ELSE <<Head(all)>>

\* the list `errors` of submit when it reaches `if errors:`
ValidationErrors(name, email, message) ==
    NameErrors(name) \o EmailErrors(email) \o MessageErrors(message)
        \o SpamErrors(name, email, message)

(***************************************************************************)
(* The forwarding call of submit: requests.post(API_URL, json=payload, ...) *)
(***************************************************************************)
RespRequestException == [kind |-> "request_exception"]

RespOtherException == [kind |-> "exception"]

\* variant: no `except Exception` clause after the requests exceptions
ApiData_uncaught(fwd) ==
    CASE fwd.kind = "timeout" ->
            {[error |-> "External API request timed out", flag |-> "timeout"]}
      [] fwd.kind = "connection_error" ->
            {[error |-> "Failed to connect to external API", flag |-> "connection_error"]}
      [] fwd.kind = "request_exception" ->
            {[error |-> "External API request failed", flag |-> "request_error"]}
      [] fwd.kind = "exception" ->
            {[error |-> "", flag |-> "raised"]}
      [] fwd.kind = "response" /\ fwd.status_code # 200 ->
            {[error |-> "External API returned status", flag |-> "status_code"]}
      [] fwd.kind = "response" /\ fwd.status_code = 200 /\ ~fwd.json ->
            {[error |-> "External API request failed", flag |-> "request_error"]}
      [] OTHER -> {[error |-> "", flag |-> "none"]}

\* api_data after the try/except of submit.  A 200 whose body is no JSON
\* makes json() raise; which except clause catches it depends on the
\* installed requests version, so both are possible.
ApiData(fwd) ==
    CASE fwd.kind = "timeout" ->
            {[error |-> "External API request timed out", flag |-> "timeout"]}
      [] fwd.kind = "connection_error" ->
            {[error |-> "Failed to connect to external API", flag |-> "connection_error"]}
      [] fwd.kind = "request_exception" ->
            {[error |-> "External API request failed", flag |-> "request_error"]}
      [] fwd.kind = "exception" ->
            {[error |-> "Unexpected error", flag |-> "unexpected"]}
      [] fwd.kind = "response" /\ fwd.status_code # 200 ->
            {[error |-> "External API returned status", flag |-> "status_code"]}
      [] fwd.kind = "response" /\ fwd.status_code = 200 /\ ~fwd.json ->
            {[error |-> "External API request failed", flag |-> "request_error"],
             [error |-> "Unexpected error", flag |-> "unexpected"]}
      [] OTHER -> {[error |-> "", flag |-> "none"]}

(***************************************************************************)
(* The requests and forms the model sends.  What the handlers compute from *)
(* a request or a form alone is computed once per request or form.         *)
(***************************************************************************)
IP_A == <<"8",".","8",".","8",".","8">>

IP_B == <<"9",".","9",".","9",".","9">>

IP_PROXY == <<"1","0",".","0",".","0",".","1">>

UA_BROWSER == <<"M","o","z","i","l","l","a","/","5",".","0">>

UA_CURL == <<"c","u","r","l","/","8",";","<">>

Request(xff, real_ip, remote_addr, user_agent) ==
    [xff |-> xff, real_ip |-> real_ip, remote_addr |-> remote_addr,
     user_agent |-> user_agent]

REQ_DIRECT == Request(None, None, IP_A, UA_BROWSER)

REQ_PROXIED ==
    Request(<<" ">> \o IP_B \o <<" ", ",", " ">> \o IP_PROXY, IP_A, IP_PROXY, UA_CURL)

REQ_LOCAL == Request(None, None, IP_LOOPBACK4, UA_BROWSER)

REQ_LOCALHOST == Request(<<>>, IP_LOCALHOST, IP_PROXY, UA_BROWSER)

REQ_LOOPBACK6 == Request(IP_LOOPBACK6, None, IP_PROXY, UA_BROWSER)

\* X-Forwarded-For: ","
REQ_NO_IP == Request(<<",">>, IP_A, IP_PROXY, UA_BROWSER)

\* no header and no remote_addr
REQ_NONE == Request(None, None, None, UA_BROWSER)

AllRequests ==
    {REQ_DIRECT, REQ_PROXIED, REQ_LOCAL, REQ_LOCALHOST, REQ_LOOPBACK6,
     REQ_NO_IP, REQ_NONE}

\* n characters, alternately c and d
Alternating(n, c, d) == [i \in 1..n |-> IF i % 2 = 1 THEN c ELSE d]

\* no User-Agent header
REQ_NO_AGENT == Request(None, None, IP_B, None)

\* User-Agent: <>
REQ_HARMFUL_AGENT == Request(None, None, IP_PROXY, <<"<", ">">>)

\* a User-Agent of UserAgentLimit + 1 characters
REQ_LONG_AGENT == Request(None, None, IP_B, Alternating(UserAgentLimit + 1, "a", "b"))

AgentRequests == {REQ_NO_AGENT, REQ_HARMFUL_AGENT, REQ_LONG_AGENT}

Form(name, email, message) == [name |-> name, email |-> email, message |-> message]

EMAIL_OK == <<"a","@","b",".","c","o">>

F_OK == Form(<<" ","A","l"," ">>, EMAIL_OK, <<"h","i">>)

F_SHORT_NAME == Form(<<"A">>, EMAIL_OK, <<>>)

F_LONG_NAME == Form(Alternating(MAX_NAME_LENGTH + 1, "a", "b"), EMAIL_OK, <<>>)

F_NAME_CHARS == Form(<<"A","l","1">>, EMAIL_OK, <<>>)

F_NO_EMAIL == Form(<<"A","l">>, <<>>, <<>>)

F_BAD_EMAIL == Form(<<"A","l">>, <<"a","@","b">>, <<>>)

F_LONG_EMAIL ==
    Form(<<"A","l">>, Alternating(MAX_EMAIL_LENGTH, "a", "b") \o EMAIL_OK, <<>>)

F_LONG_MESSAGE ==
    Form(<<"A","l">>, EMAIL_OK, Alternating(MAX_MESSAGE_LENGTH + 1, "a", "b"))

F_SPAM == Form(<<"A","l">>, EMAIL_OK, <<"A","c","t"," ","N","O","W">>)

F_REPEATED == Form(<<"A","l">>, EMAIL_OK, <<"z","z","z","z","z">>)

\* a short name, a bad address, a phrase and a run at once
F_BAD == Form(<<"A">>, <<"x">>, <<"U","R","G","E","N","T"," ","0","0","0","0","0">>)

\* "Act" and "now@b.co": a phrase only where name and email are joined
F_CROSS_PHRASE == Form(<<"A","c","t">>, <<"n","o","w","@","b",".","c","o">>, <<"h","i">>)

\* "Alaa" and "aaa@b.co": five a's only if name and email touch
F_CROSS_RUN == Form(<<"A","l","a","a">>, <<"a","a","a","@","b",".","c","o">>, <<>>)

AllForms ==
    {F_OK, F_SHORT_NAME, F_LONG_NAME, F_NAME_CHARS, F_NO_EMAIL, F_BAD_EMAIL,
     F_LONG_EMAIL, F_LONG_MESSAGE, F_SPAM, F_REPEATED, F_BAD, F_CROSS_PHRASE,
     F_CROSS_RUN}

\* request.headers.get('User-Agent', '')
UserAgentHeader(request) ==
    IF request.user_agent = None THEN <<>> ELSE request.user_agent

\* name, email and message of submit: request.form.get(..., '').strip()
StrippedFields(form) ==
    [name |-> Strip(form.name), email |-> Strip(form.email),
     message |-> Strip(form.message)]

\* form_data as submit passes it to log_visitor
SubmittedFormData(fields, user_agent) ==
    IF detect_bot_user_agent(user_agent)
    THEN [name |-> clean_form_data(fields).name,
          email |-> clean_form_data(fields).email,
          message |-> clean_form_data(fields).message,
          bot_detected |-> TRUE]
    ELSE clean_form_data(fields)

ClientIp == [request \in AllRequests \cup AgentRequests |-> get_client_ip(request)]

SanitizedAgent ==
    [request \in AllRequests \cup AgentRequests |->
        sanitize_user_agent(UserAgentHeader(request))]

Fields == [form \in AllForms |-> StrippedFields(form)]

Errors ==
    [form \in AllForms |->
        ValidationErrors(Fields[form].name, Fields[form].email, Fields[form].message)]

FormData ==
    [request \in AllRequests \cup AgentRequests, form \in AllForms |->
        SubmittedFormData(Fields[form], SanitizedAgent[request])]

(***************************************************************************)
(* Handlers.  Requests are handled one at a time; `last` is what the        *)
(* handler of the request being answered did, and Idle between requests.   *)
(***************************************************************************)
NoForm == [name |-> <<>>, email |-> <<>>, message |-> <<>>]

NoApiData == [error |-> "", flag |-> "n/a"]

\* no call was made
NoResponse == [kind |-> "none"]

\* no request is being answered
NoRequest == Request(None, None, None, None)

\* nothing was sent to the forwarding sink
NoPayload == [sent |-> FALSE]

\* `steps` lists, in the order the handler made them, the calls that read or
\* write the table, the lookup service or the forwarding sink, and the field
\* validation
Idle ==
    [op |-> "none", request |-> NoRequest, ip |-> None, status |-> 0,
     errors |-> <<>>, form |-> NoForm,
     rate |-> "n/a", upstream |-> NoResponse, geo_calls |-> 0,
     location |-> PyNone, db |-> "n/a", log |-> "n/a",
     fwd |-> NoResponse, fwd_calls |-> 0, payload |-> NoPayload,
     api_data |-> NoApiData, found |-> <<>>, changed |-> 0, steps |-> <<>>]

\* an exception that leaves a view function is answered by
\* @app.errorhandler(500)
Answer(raised) == IF raised THEN 500 ELSE 200

\* @app.route('/')
home(request, upstream, db) ==
    LET ip_address == ClientIp[request]
        user_agent == UserAgentHeader(request)
        geo == get_location_data(ip_address, upstream)
        logged == log_visitor(ip_address, geo.result, user_agent, NullJson, db)
    IN  /\ store' = store \cup logged.rows
        /\ nextId' = nextId + Cardinality(logged.rows)
        /\ last' = [Idle EXCEPT !.op = "home", !.request = request,
                                !.ip = ip_address,
                                !.status = Answer(logged.outcome = "raised"),
                                !.steps = <<"geo", "log">>,
                                !.upstream = upstream,
                                !.geo_calls = geo.calls, !.location = geo.result,
                                !.db = db, !.log = logged.outcome,
                                !.changed = Cardinality(logged.rows)]
        /\ UNCHANGED now

\* variant: the fields validated before the rate-limit check
EarlyReturn_validated_first(limited, errors) ==
    IF errors # <<>> THEN 400 ELSE IF limited THEN 429 ELSE 0

\* the status of the early return of submit, 0 when it makes none: the
\* rate-limit check is evaluated first, then the fields
EarlyReturn(limited, errors) ==
    IF limited THEN 429 ELSE IF errors # <<>> THEN 400 ELSE 0

\* @app.route('/submit', methods=['POST'])
submit(request, form, rate_db, upstream, db, fwd, api_data) ==
    LET fields == Fields[form]
        ip_address == ClientIp[request]
        limited == check_form_submission_rate_limit(ip_address, rate_db)
        errors == Errors[form]
        user_agent == SanitizedAgent[request]
        geo == get_location_data(ip_address, upstream)
        form_data == FormData[request, form]
        logged == log_visitor(ip_address, geo.result, user_agent, form_data, db)
        payload == [name |-> fields.name, email |-> fields.email,
                    message |-> fields.message, ip |-> ip_address,
                    timestamp |-> now]
        seen == [Idle EXCEPT !.op = "submit", !.request = request,
                             !.ip = ip_address, !.form = fields, !.rate = rate_db]
        early == EarlyReturn(limited, errors)
    IN  IF early = 429
        THEN /\ last' = [seen EXCEPT !.status = 429, !.errors = <<ERR_RATE>>,
                                     !.steps = <<"rate">>]
             /\ UNCHANGED <<store, nextId, now>>
        ELSE IF early = 400
        THEN /\ last' = [seen EXCEPT !.status = 400, !.errors = errors,
                                     !.steps = <<"rate", "validate">>]
             /\ UNCHANGED <<store, nextId, now>>
        ELSE /\ store' = store \cup logged.rows
             /\ nextId' = nextId + Cardinality(logged.rows)
             /\ last' = IF logged.outcome = "raised"
                        THEN [seen EXCEPT !.status = Answer(TRUE), !.upstream = upstream,
                                          !.geo_calls = geo.calls,
                                          !.location = geo.result,
                                          !.db = db, !.log = logged.outcome,
                                          !.steps = <<"rate", "validate", "geo",
                                                      "log">>]
                        ELSE [seen EXCEPT !.status = Answer(api_data.flag = "raised"),
                                          !.upstream = upstream,
                                          !.geo_calls = geo.calls,
                                          !.location = geo.result,
                                          !.db = db, !.log = logged.outcome,
                                          !.changed = Cardinality(logged.rows),
                                          !.fwd = fwd, !.fwd_calls = 1,
                                          !.payload = payload,
                                          !.api_data = api_data,
                                          !.steps = <<"rate", "validate", "geo",
                                                      "log", "forward">>]
             /\ UNCHANGED now

\* variant: the DELETE without `AND form_data IS NULL`
OldVisits_any ==
    {r \in store : r.timestamp < now - RetentionMinutes}

\* DELETE FROM visitor_logs WHERE timestamp < NOW() - INTERVAL '90 days'
\*                          AND form_data IS NULL
OldVisits ==
    {r \in store : r.timestamp < now - RetentionMinutes /\ r.form_data = NullJson}

\* @app.route('/admin/cleanup/old-visits')
cleanup_old_visits(db) ==
    /\ IF db = DbOk
       THEN /\ store' = store \ OldVisits
            /\ last' = [Idle EXCEPT !.op = "cleanup", !.status = 200,
                                    !.changed = Cardinality(OldVisits)]
       ELSE /\ store' = store
            /\ last' = [Idle EXCEPT !.op = "cleanup", !.status = 500]
    /\ UNCHANGED <<nextId, now>>

\* SELECT id, ip_address FROM visitor_logs
\*   WHERE (country IS NULL OR country = '') AND ip_address != '127.0.0.1'
WithoutLocation ==
    {r \in store : (r.country = NULL \/ r.country = "") /\ r.ip_address # IP_LOOPBACK4}

\* LIMIT 20 without ORDER BY: any RefreshLimit of the rows, or all of them
IsRefreshSelection(rows) ==
    /\ rows \subseteq WithoutLocation
    /\ Cardinality(rows) =
         IF Cardinality(WithoutLocation) < RefreshLimit
         THEN Cardinality(WithoutLocation) ELSE RefreshLimit

\* variant: an UPDATE that also sets timestamp = NOW()
UpdatedRow_stamped(r, location_data) ==
    IF Truthy(location_data)
    THEN [r EXCEPT !.country = location_data.country_name,
                   !.latitude = location_data.latitude,
                   !.timestamp = now]
    ELSE r

\* the UPDATE of one row: the geolocation columns, straight from the dict
UpdatedRow(r, location_data) ==
    IF Truthy(location_data)
    THEN [r EXCEPT !.country = location_data.country_name,
                   !.latitude = location_data.latitude]
    ELSE r

\* @app.route('/admin/refresh-locations'); lookups[id] is what the lookup
\* service answers for the row with that id.  An exception anywhere leaves
\* the transaction uncommitted.
refresh_locations(db, rows, lookups) ==
    LET found(r) == get_location_data(r.ip_address, lookups[r.id]).result
        raised == \/ db # DbOk
                  \/ \E r \in rows : GetRaises(found(r))
        updated == {r \in rows : Truthy(found(r))}
    IN  /\ db = DbOk => IsRefreshSelection(rows)
        /\ IF raised
           THEN /\ store' = store
                /\ last' = [Idle EXCEPT !.op = "refresh", !.status = 500]
           ELSE /\ store' = {IF r \in rows THEN UpdatedRow(r, found(r)) ELSE r : r \in store}
                /\ last' = [Idle EXCEPT !.op = "refresh", !.status = 200,
                                        !.found = [id \in {r.id : r \in rows} |->
                                                     found(CHOOSE r \in rows : r.id = id)],
                                        !.changed = Cardinality(updated)]
        /\ UNCHANGED <<nextId, now>>

(***************************************************************************)
(* Environment: the requests, the answers of the lookup service and of the *)
(* forwarding sink, the database failures, and the instants of the clock.  *)
(* A specification runs the handlers in one environment.                   *)
(***************************************************************************)

\* rows ever inserted
MaxRecords == 3

\* a JSON object as ipapi.co documents it
GeoRecord == PyDict(25, FALSE, "Poland", "52.2")

UP_RECORD == HttpResponse(200, TRUE, GeoRecord)

\* {}
UP_EMPTY == HttpResponse(200, TRUE, PyDict(0, FALSE, NULL, NULL))

\* {"error": true, "reason": "RateLimited"}
UP_ERROR == HttpResponse(200, TRUE, PyDict(2, TRUE, NULL, NULL))

\* ["x"]
UP_ARRAY == HttpResponse(200, TRUE, PyList(1, FALSE))

\* ["error"]
UP_ARRAY_ERROR == HttpResponse(200, TRUE, PyList(1, TRUE))

\* "unavailable"
UP_STRING == HttpResponse(200, TRUE, PyStr(11, FALSE))

\* null
UP_NULL == HttpResponse(200, TRUE, PyScalar)

\* <html>...
UP_NOT_JSON == HttpResponse(200, FALSE, PyNone)

UP_429 == HttpResponse(429, TRUE, PyDict(1, FALSE, NULL, NULL))

UP_500 == HttpResponse(500, FALSE, PyNone)

UP_404 == HttpResponse(404, TRUE, GeoRecord)

AllUpstreams ==
    {UP_RECORD, UP_EMPTY, UP_ERROR, UP_ARRAY, UP_ARRAY_ERROR, UP_STRING, UP_NULL,
     UP_NOT_JSON, UP_429, UP_500, UP_404, RespTimeout, RespConnectionError,
     RespRequestException, RespOtherException}

FWD_OK == HttpResponse(200, TRUE, PyDict(1, FALSE, NULL, NULL))

FWD_NOT_JSON == HttpResponse(200, FALSE, PyNone)

FWD_201 == HttpResponse(201, TRUE, PyDict(1, FALSE, NULL, NULL))

FWD_500 == HttpResponse(500, FALSE, PyNone)

AllForwards ==
    {FWD_OK, FWD_NOT_JSON, FWD_201, FWD_500, RespTimeout, RespConnectionError,
     RespRequestException, RespOtherException}

AllDbOutcomes == {DbOk, DbConnectError, DbQueryError, DbWriteError}

\* both sides of the cooldown and of the hour for a row written at 0
ShortTimes ==
    {0, VISITOR_LOG_COOLDOWN_MINUTES - 1, VISITOR_LOG_COOLDOWN_MINUTES, HourMinutes}

\* both sides of the retention age for a row written at 0
LongTimes == {0, HourMinutes, RetentionMinutes, RetentionMinutes + 1}

\* requests that meet at most MaxFaults failures of a collaborator (a database
\* call that raises, a lookup or a forwarding call that does not answer 200
\* with the documented body) are sent
MaxFaults == 1

Fault(outcome, expected) == IF outcome \in expected THEN 0 ELSE 1

Faults(rate_db, upstream, db, fwd) ==
    Fault(rate_db, {DbOk}) + Fault(upstream, {UP_RECORD, NoResponse})
        + Fault(db, {DbOk}) + Fault(fwd, {FWD_OK, NoResponse})

\* the lookup is made for these addresses only
NeedsLookup(ip_address) ==
    TruthyStr(ip_address) /\ ip_address \notin {IP_LOOPBACK4, IP_LOCALHOST, IP_LOOPBACK6}

\* submit returns before the lookup, the database write and the forwarding call
AnswersEarly(request, form, rate_db) ==
    \/ check_form_submission_rate_limit(ClientIp[request], rate_db)
    \/ Errors[form] # <<>>

Init ==
    /\ store = {}
    /\ nextId = 1
    /\ now = 0
    /\ last = Idle

\* What a handler meets after the client address is known: the answer of the
\* lookup service (when the address needs a lookup), the database failure of
\* log_visitor, the answer of the forwarding sink and the api_data it leaves.
Meets(E, lookup, faults) ==
    {m \in [upstream : IF lookup THEN E.upstreams ELSE {NoResponse},
            db : E.log_dbs, fwd : E.forwards,
            api_data : UNION {ApiData(fwd) : fwd \in E.forwards}] :
        /\ m.api_data \in ApiData(m.fwd)
        /\ faults + Faults(DbOk, m.upstream, m.db, m.fwd) <= MaxFaults}

\* an environment, with what its requests can meet
Environment(requests, forms, rate_dbs, upstreams, log_dbs, forwards, admin_dbs, times) ==
    LET E == [requests |-> requests, forms |-> forms, rate_dbs |-> rate_dbs,
              upstreams |-> upstreams, log_dbs |-> log_dbs, forwards |-> forwards,
              admin_dbs |-> admin_dbs, times |-> times]
    IN  [requests |-> requests, forms |-> forms, rate_dbs |-> rate_dbs,
         upstreams |-> upstreams, admin_dbs |-> admin_dbs, times |-> times,
         visits |-> [lookup \in BOOLEAN |->
                        {m \in Meets([E EXCEPT !.forwards = {NoResponse}], lookup, 0) : TRUE}],
         submissions |-> [lookup \in BOOLEAN, rate_db \in rate_dbs |->
                        Meets(E, lookup, Fault(rate_db, {DbOk}))]]

\* what the lookups of one refresh answer, one answer for each row id
Lookups(E, ids, faults) ==
    UNION {{[id \in ids |-> IF id \in failing THEN answer[id] ELSE UP_RECORD] :
               answer \in [failing -> E.upstreams \ {UP_RECORD}]} :
           failing \in {f \in SUBSET ids : faults + Cardinality(f) <= MaxFaults}}

Home(E) ==
    /\ last = Idle
    /\ \E request \in E.requests :
         \E m \in E.visits[NeedsLookup(ClientIp[request])] :
           /\ home(request, m.upstream, m.db)
           /\ nextId' <= MaxRecords + 1

Submit(E) ==
    /\ last = Idle
    /\ \E request \in E.requests, form \in E.forms, rate_db \in E.rate_dbs :
         IF AnswersEarly(request, form, rate_db)
         THEN submit(request, form, rate_db, NoResponse, DbOk, NoResponse, NoApiData)
         ELSE \E m \in E.submissions[NeedsLookup(ClientIp[request]), rate_db] :
                /\ submit(request, form, rate_db, m.upstream, m.db, m.fwd, m.api_data)
                /\ nextId' <= MaxRecords + 1

Cleanup(E) ==
    /\ last = Idle
    /\ \E db \in E.admin_dbs : cleanup_old_visits(db)

Refresh(E) ==
    /\ last = Idle
    /\ \E db \in E.admin_dbs :
         IF db \in {DbConnectError, DbQueryError}
         THEN refresh_locations(db, {}, <<>>)
         ELSE \E rows \in SUBSET WithoutLocation :
                \E lookups \in Lookups(E, {r.id : r \in rows}, Fault(db, {DbOk})) :
                  refresh_locations(db, rows, lookups)

\* the response is sent and the handler returns
Return ==
    /\ last # Idle
    /\ last' = Idle
    /\ UNCHANGED <<store, nextId, now>>

\* time passes between two requests
Tick(E) ==
    /\ last = Idle
    /\ \E t \in E.times :
         /\ t > now
         /\ now' = t
         /\ UNCHANGED <<store, nextId, last>>

Run(E) == Home(E) \/ Submit(E) \/ Cleanup(E) \/ Refresh(E) \/ Return \/ Tick(E)

\* The visit and submission policies: two clients, every database failure,
\* a lookup that answers a record or an array.
EnvPolicy ==
    Environment({REQ_DIRECT, REQ_PROXIED}, {F_OK, F_BAD},
                {DbOk, DbConnectError, DbQueryError}, {UP_RECORD, UP_ARRAY},
                AllDbOutcomes, {FWD_OK, RespTimeout}, {DbOk}, ShortTimes)

Next == Run(EnvPolicy)

Spec == Init /\ [][Next]_vars

\* The maintenance routes: rows with and without a country, of a remote and
\* of a local client, seen from both sides of the retention age.
EnvStore ==
    Environment({REQ_DIRECT, REQ_LOCAL}, {F_OK}, {DbOk},
                {UP_RECORD, UP_EMPTY, UP_ARRAY, RespTimeout},
                {DbOk}, {FWD_OK}, AllDbOutcomes, LongTimes)

NextStore == Run(EnvStore)

SpecStore == Init /\ [][NextStore]_vars

\* The submission pipeline: every form and every answer of the sink.
EnvSubmit ==
    Environment({REQ_DIRECT, REQ_PROXIED}, AllForms, {DbOk, DbQueryError},
                {UP_RECORD}, {DbOk, DbWriteError}, AllForwards, {DbOk},
                {0, HourMinutes})

NextSubmit == Run(EnvSubmit)

SpecSubmit == Init /\ [][NextSubmit]_vars

\* The resolver: every address and every answer of the lookup service, for
\* requests that follow each other within the cooldown.
EnvResolver ==
    Environment(AllRequests \ {REQ_PROXIED}, {F_OK}, {DbOk}, AllUpstreams, {DbOk},
                {FWD_OK}, {DbOk}, {0, VISITOR_LOG_COOLDOWN_MINUTES - 1})

NextResolver == Run(EnvResolver)

SpecResolver == Init /\ [][NextResolver]_vars

\* The User-Agent header: a browser, a client whose header has harmful
\* characters, and clients whose header is missing, is emptied by
\* sanitize_user_agent, or is longer than the column.
EnvAgent ==
    Environment({REQ_DIRECT, REQ_PROXIED} \cup AgentRequests, {F_OK}, {DbOk},
                {UP_RECORD}, {DbOk}, {FWD_OK}, {DbOk},
                {0, VISITOR_LOG_COOLDOWN_MINUTES})

NextAgent == Run(EnvAgent)

SpecAgent == Init /\ [][NextAgent]_vars

\* The client address: requests that come directly, through a proxy that
\* sets both headers, with an empty X-Forwarded-For next to X-Real-IP, and
\* with an X-Forwarded-For whose first entry is empty.
EnvAddress ==
    Environment({REQ_DIRECT, REQ_PROXIED, REQ_LOCALHOST, REQ_NO_IP}, {F_OK}, {DbOk},
                {UP_RECORD}, {DbOk}, {FWD_OK}, {DbOk},
                {0, VISITOR_LOG_COOLDOWN_MINUTES})

NextAddress == Run(EnvAddress)

SpecAddress == Init /\ [][NextAddress]_vars

(***************************************************************************)
(* Concurrent handling.  MaxConcurrent requests of one client, each a      *)
(* visit or a submission of F_OK, are answered by workers whose database   *)
(* statements interleave: each SELECT and each INSERT with its commit is   *)
(* one step on a connection of its own (READ COMMITTED), and nothing else  *)
(* is shared.  Here `last` maps each worker to what its handler has done   *)
(* so far; pc is the place the handler has reached.                        *)
(***************************************************************************)
MaxConcurrent == 2

Workers == 1..MaxConcurrent

\* the table the requests find: a visit and a submission of the client, the
\* visit as old as the cooldown
ExistingRows ==
    {[id |-> 1, ip_address |-> IP_A, country |-> "Poland", latitude |-> "52.2",
      user_agent |-> UA_BROWSER, form_data |-> NullJson, timestamp |-> 0],
     [id |-> 2, ip_address |-> IP_A, country |-> "Poland", latitude |-> "52.2",
      user_agent |-> UA_BROWSER, form_data |-> FormData[REQ_DIRECT, F_OK],
      timestamp |-> 0]}

Waiting(op) ==
    [op |-> op, pc |-> "start", location |-> PyNone, recent_visits |-> 0,
     status |-> 0, log |-> "n/a"]

InitConcurrent ==
    /\ store = ExistingRows
    /\ nextId = 3
    /\ now = VISITOR_LOG_COOLDOWN_MINUTES
    /\ last \in [Workers -> {Waiting("home"), Waiting("submit")}]

\* submit: if check_form_submission_rate_limit(ip_address)
RateCheck(i) ==
    /\ last[i].op = "submit" /\ last[i].pc = "start"
    /\ last' = [last EXCEPT ![i] =
                  IF check_form_submission_rate_limit(ClientIp[REQ_DIRECT], DbOk)
                  THEN [@ EXCEPT !.pc = "done", !.status = 429]
                  ELSE [@ EXCEPT !.pc = "passed"]]
    /\ UNCHANGED <<store, nextId, now>>

\* location_data = get_location_data(ip_address)
Lookup(i) ==
    /\ \/ last[i].op = "home" /\ last[i].pc = "start"
       \/ last[i].op = "submit" /\ last[i].pc = "passed"
    /\ \E upstream \in {UP_RECORD, UP_ARRAY} :
         last' = [last EXCEPT ![i] =
                    [@ EXCEPT !.pc = "looked",
                              !.location =
                                  get_location_data(ClientIp[REQ_DIRECT], upstream).result]]
    /\ UNCHANGED <<store, nextId, now>>

\* log_visitor: the SELECT COUNT(*) of the dedup check
DedupCheck(i) ==
    /\ last[i].pc = "looked"
    /\ last' = [last EXCEPT ![i] =
                  [@ EXCEPT !.pc = "checked",
                            !.recent_visits = RecentVisits(ClientIp[REQ_DIRECT])]]
    /\ UNCHANGED <<store, nextId, now>>

\* variant: INSERT ... ON CONFLICT (ip_address) DO UPDATE, one row for each
\* address
Inserted_upsert(row) ==
    {r \in store : r.ip_address # row.ip_address} \cup {row}

\* the table after INSERT INTO visitor_logs ... and conn.commit()
Inserted(row) == store \cup {row}

\* log_visitor after the SELECT: the early return of a duplicate visit, or
\* the INSERT and the commit
Write(i) ==
    LET seen == last[i]
        user_agent == IF seen.op = "home" THEN UserAgentHeader(REQ_DIRECT)
                      ELSE SanitizedAgent[REQ_DIRECT]
        form_data == IF seen.op = "home" THEN NullJson ELSE FormData[REQ_DIRECT, F_OK]
        after == IF seen.op = "home" THEN "done" ELSE "logged"
        status == IF seen.op = "home" THEN 200 ELSE 0
    IN  /\ seen.pc = "checked"
        /\ IF seen.recent_visits > 0 /\ form_data = NullJson
           THEN /\ last' = [last EXCEPT ![i] = [@ EXCEPT !.pc = after, !.status = status,
                                                        !.log = "skipped"]]
                /\ UNCHANGED <<store, nextId>>
           ELSE IF GetRaises(seen.location)
           THEN /\ last' = [last EXCEPT ![i] = [@ EXCEPT !.pc = after, !.status = status,
                                                        !.log = "error"]]
                /\ UNCHANGED <<store, nextId>>
           ELSE /\ store' = Inserted(NewRow(ClientIp[REQ_DIRECT], seen.location,
                                            user_agent, form_data))
                /\ nextId' = nextId + 1
                /\ last' = [last EXCEPT ![i] = [@ EXCEPT !.pc = after, !.status = status,
                                                        !.log = "inserted"]]
        /\ UNCHANGED now

\* submit: requests.post(API_URL, ...) and the success page
Forward(i) ==
    /\ last[i].op = "submit" /\ last[i].pc = "logged"
    /\ last' = [last EXCEPT ![i] = [@ EXCEPT !.pc = "done", !.status = 200]]
    /\ UNCHANGED <<store, nextId, now>>

\* the next step of worker i
Step(i) == RateCheck(i) \/ Lookup(i) \/ DedupCheck(i) \/ Write(i) \/ Forward(i)

RateChecks == \E i \in Workers : RateCheck(i)

LookupSteps == \E i \in Workers : Lookup(i)

DedupChecks == \E i \in Workers : DedupCheck(i)

Writes == \E i \in Workers : Write(i)

Forwards == \E i \in Workers : Forward(i)

NextConcurrent == RateChecks \/ LookupSteps \/ DedupChecks \/ Writes \/ Forwards

SpecConcurrent == InitConcurrent /\ [][NextConcurrent]_vars

(***************************************************************************)
(* Properties.  A step in which a handler answers a request starts from    *)
(* last = Idle; the unprimed store is the table the handler found and the  *)
(* primed `last` is what the handler did.                                  *)
(***************************************************************************)
Handles(op) == last = Idle /\ last'.op = op

StorageFails(db) == db \in {DbConnectError, DbQueryError, DbWriteError}

\* C1, as stated: when the store works, a visit from an address with a visit
\* record in the last VISITOR_LOG_COOLDOWN_MINUTES adds nothing, and a visit
\* from an address without one adds exactly one visit record of that address
\* (so two visits within the cooldown leave one record and a visit after the
\* cooldown leaves a second one).
C1_OneVisitRecordPerCooldown ==
    [][(Handles("home") /\ TruthyStr(last'.ip) /\ ~StorageFails(last'.db))
         => IF RecentVisits(last'.ip) > 0
            THEN store' = store
            ELSE \E r \in store' \ store :
                   /\ store' = store \cup {r}
                   /\ r.ip_address = last'.ip
                   /\ r.form_data = NullJson
                   /\ r.timestamp = now]_vars

\* C2, as stated: whenever the store holds at least
\* MAX_FORM_SUBMISSIONS_PER_IP_PER_HOUR submission records of an address in
\* the last hour, a submission from that address is answered 429, adds no
\* record, is not forwarded and makes no lookup.
C2_LimitedSubmissionRejected ==
    [][(Handles("submit")
          /\ SubmissionCount(last'.ip) >= MAX_FORM_SUBMISSIONS_PER_IP_PER_HOUR)
         => /\ last'.status = 429
            /\ store' = store
            /\ last'.fwd_calls = 0
            /\ last'.geo_calls = 0]_vars

\* C2, amended: whenever the store holds at least
\* MAX_FORM_SUBMISSIONS_PER_IP_PER_HOUR submission records of an address in
\* the last hour and the rate-limit query can be evaluated, a submission from
\* that address is answered 429 with the rate-limit message, adds no record,
\* is not forwarded and makes no lookup.
C2_CountedLimitedSubmissionRejected ==
    [][(Handles("submit")
          /\ last'.rate = DbOk
          /\ SubmissionCount(last'.ip) >= MAX_FORM_SUBMISSIONS_PER_IP_PER_HOUR)
         => /\ last'.status = 429
            /\ last'.errors = <<ERR_RATE>>
            /\ store' = store
            /\ nextId' = nextId
            /\ last'.fwd_calls = 0
            /\ last'.geo_calls = 0]_vars

C2_Rejected ==
    /\ last.op = "submit"
    /\ last.rate = DbOk
    /\ SubmissionCount(last.ip) >= MAX_FORM_SUBMISSIONS_PER_IP_PER_HOUR
    /\ last.status = 429

\* C3: a cleanup that succeeds removes exactly the records whose form_data is
\* null and whose timestamp is more than 90 days old, a cleanup that fails
\* removes nothing, and no step of another operation removes a record.
C3_CleanupRemovesOldVisitsOnly ==
    [][/\ (Handles("cleanup") /\ last'.status = 200)
            => store' = {r \in store : ~(/\ r.form_data = NullJson
                                         /\ r.timestamp < now - RetentionMinutes)}
       /\ (Handles("cleanup") /\ last'.status # 200) => store' = store
       /\ ~Handles("cleanup") => \A r \in store : \E k \in store' : k.id = r.id]_vars

C3_CleanedAroundSubmission ==
    /\ last.op = "cleanup"
    /\ last.changed > 0
    /\ \E r \in store : r.form_data # NullJson /\ r.timestamp < now - RetentionMinutes

\* C4: a refresh keeps the number of records and, of every record, the id,
\* ip_address, user_agent, form_data and timestamp; a record whose country is
\* non-empty, or whose lookup returned None, is left as it was.
C4_RefreshKeepsRecords ==
    [][Handles("refresh")
         => /\ Cardinality(store') = Cardinality(store)
            /\ \A r \in store : \E k \in store' :
                 /\ k.id = r.id
                 /\ k.ip_address = r.ip_address
                 /\ k.user_agent = r.user_agent
                 /\ k.form_data = r.form_data
                 /\ k.timestamp = r.timestamp
                 /\ r.country \notin {NULL, ""} => k = r
                 /\ (r.id \in DOMAIN last'.found /\ last'.found[r.id] = PyNone)
                       => k = r]_vars

C4_RefreshedSome ==
    /\ last.op = "refresh"
    /\ last.changed > 0
    /\ \E id \in DOMAIN last.found : last.found[id] = PyNone
    /\ \E r \in store : r.id \notin DOMAIN last.found /\ r.timestamp < now

\* the messages of the checks a submission fails, check by check
C5_Triggered(form) ==
    (IF Len(form.name) < MIN_NAME_LENGTH THEN {ERR_NAME_SHORT}
     ELSE IF Len(form.name) > MAX_NAME_LENGTH THEN {ERR_NAME_LONG}
     ELSE IF ~NameIsAlpha(form.name) THEN {ERR_NAME_CHARS} ELSE {})
    \cup (IF form.email = <<>> THEN {ERR_EMAIL_REQUIRED}
          ELSE IF ~validate_email_format(form.email) THEN {ERR_EMAIL_INVALID}
          ELSE {})
    \cup (IF Len(form.message) > MAX_MESSAGE_LENGTH THEN {ERR_MESSAGE_LONG} ELSE {})
    \cup (IF HasSpamKeyword(CombinedText(form.name, form.email, form.message))
          THEN {ERR_SPAM} ELSE {})
    \cup (IF HasRepeatedChars(CombinedText(form.name, form.email, form.message))
          THEN {ERR_PATTERN} ELSE {})

\* the same, computed once for each form the clients send
C5_Expected ==
    [fields \in {Fields[form] : form \in AllForms} |-> C5_Triggered(fields)]

\* C5: a submission that passes the rate-limit check and fails a validation
\* check is answered 400 with the message of every check it fails and no
\* other, adds no record, makes no lookup and is not forwarded.
C5_InvalidSubmissionRejected ==
    [][(Handles("submit") /\ last'.status # 429 /\ C5_Expected[last'.form] # {})
         => /\ last'.status = 400
            /\ Range(last'.errors) = C5_Expected[last'.form]
            /\ Len(last'.errors) = Cardinality(C5_Expected[last'.form])
            /\ store' = store
            /\ nextId' = nextId
            /\ last'.geo_calls = 0
            /\ last'.log = "n/a"
            /\ last'.fwd_calls = 0]_vars

C5_RejectedWithFourMessages ==
    /\ last.op = "submit"
    /\ last.status = 400
    /\ Len(last.errors) = 4

\* C6, as stated: a submission whose rate-limit query cannot be evaluated is
\* not rejected as rate-limited, and a visit whose dedup query cannot be
\* evaluated is treated as not a duplicate, that is, its record is written.
C6_BothChecksFailOpen ==
    [][/\ (Handles("submit") /\ StorageFails(last'.rate)) => last'.status # 429
       /\ (Handles("home") /\ TruthyStr(last'.ip) /\ last'.db = DbQueryError
             /\ ~GetRaises(last'.location))
            => \E r \in store' \ store : r.ip_address = last'.ip]_vars

\* C6, amended: a submission whose rate-limit query cannot be evaluated is
\* not rejected as rate-limited; a visit or a submission whose connection or
\* dedup query fails writes no record and is still answered 200.
C6_RateCheckFailsOpenDedupSkipsWrite ==
    [][/\ (Handles("submit") /\ StorageFails(last'.rate)) => last'.status # 429
       /\ ((Handles("home") \/ Handles("submit"))
             /\ last'.db \in {DbConnectError, DbQueryError})
            => /\ store' = store
               /\ last'.status = 200
               /\ last'.log \in {"no_ip", "connect_error", "query_error"}]_vars

C6_AcceptedOverTheLimit ==
    /\ last.op = "submit"
    /\ StorageFails(last.rate)
    /\ last.status = 200
    /\ SubmissionCount(last.ip) > MAX_FORM_SUBMISSIONS_PER_IP_PER_HOUR

\* the forwarding call was answered 200 with a body that parses
C7_Forwarded(fwd) == fwd.kind = "response" /\ fwd.status_code = 200 /\ fwd.json

\* C7: an accepted submission is answered 200 whatever the forwarding call
\* met, with an error indication when the call was not answered 200 with a
\* body that parses and without one when it was, and the forwarding call
\* changes nothing of the store: the records kept are the ones log_visitor
\* left.
C7_ForwardingNeverChangesOutcome ==
    [][(Handles("submit") /\ last'.status \notin {429, 400})
         => /\ last'.status = 200
            /\ last'.fwd_calls = 1
            /\ last'.api_data.flag # "n/a"
            /\ C7_Forwarded(last'.fwd) <=> last'.api_data.error = ""
            /\ store \subseteq store'
            /\ Cardinality(store' \ store) = last'.changed
            /\ last'.log = "inserted"
                 => \E r \in store' \ store :
                      /\ r.ip_address = last'.ip
                      /\ r.form_data # NullJson
                      /\ r.timestamp = now]_vars

C7_AcceptedThoughForwardingRaised ==
    /\ last.op = "submit"
    /\ last.fwd = RespOtherException
    /\ last.status = 200
    /\ last.log = "inserted"
    /\ last.api_data.flag = "unexpected"

\* C8: when the database call of log_visitor fails, a visit is still
\* answered 200 and an accepted submission is still forwarded and answered
\* 200; the store is left as it was.
C8_PersistenceFailureNeverFailsRequest ==
    [][/\ (Handles("home") /\ StorageFails(last'.db))
            => /\ last'.status = 200
               /\ store' = store
       /\ (Handles("submit") /\ StorageFails(last'.db))
            => /\ last'.status = 200
               /\ store' = store
               /\ last'.fwd_calls = 1
               /\ last'.api_data \in ApiData(last'.fwd)]_vars

C8_ForwardedThoughNotWritten ==
    /\ last.op = "submit"
    /\ last.db = DbConnectError
    /\ last.log = "connect_error"
    /\ last.status = 200
    /\ last.fwd_calls = 1
    /\ last.api_data.flag = "none"

\* the lookup was answered 200 with a JSON object that has no error field
C9_ObjectWithoutError(upstream) ==
    /\ upstream.kind = "response"
    /\ upstream.status_code = 200
    /\ upstream.json
    /\ upstream.value.type = "dict"
    /\ ~upstream.value.error

\* C9, as stated: a lookup never raises; it returns the parsed body when the
\* service answers 200 with a JSON object that has no error field, and None
\* for every other answer (429, another status, a timeout, a connection
\* error, a body that is malformed or not an object).
C9_ResolverReturnsObjectOrNone ==
    (last.op \in {"home", "submit"} /\ last.geo_calls = 1)
        => /\ last.status # 500
           /\ last.location = IF C9_ObjectWithoutError(last.upstream)
                              THEN last.upstream.value
                              ELSE PyNone

\* C10: for a missing or empty address and for 127.0.0.1, localhost and ::1
\* the resolver returns the fixed local record and makes no lookup; for every
\* other address it makes exactly one lookup.
C10_LocalAddressesNeverLookedUp ==
    (last.op = "home" \/ (last.op = "submit" /\ last.status \notin {429, 400}))
        => IF last.ip \in {None, <<>>, IP_LOOPBACK4, IP_LOCALHOST, IP_LOOPBACK6}
           THEN /\ last.geo_calls = 0
                /\ last.location = PyDict(13, FALSE, "Local", "0.0")
           ELSE last.geo_calls = 1

C10_LocalhostAnsweredLocally ==
    /\ last.op = "home"
    /\ last.ip = IP_LOCALHOST
    /\ last.geo_calls = 0
    /\ last.location.country_name = "Local"

\* C11, as stated: a submission that passes the rate-limit check and the
\* field validation, with storage working, adds exactly one submission
\* record, of the client address and with the cleaned name, email and
\* message in form_data, and makes exactly one forwarding call, with the
\* payload {name, email, message, ip, timestamp}.
C11_AcceptedSubmissionRecordedAndForwardedOnce ==
    [][(Handles("submit") /\ last'.status \notin {429, 400}
          /\ ~StorageFails(last'.db))
         => /\ \E r \in store' \ store :
                 /\ store' = store \cup {r}
                 /\ r.ip_address = last'.ip
                 /\ r.form_data # NullJson
                 /\ r.form_data.name = clean_form_data(last'.form).name
                 /\ r.form_data.email = clean_form_data(last'.form).email
                 /\ r.form_data.message = clean_form_data(last'.form).message
            /\ last'.fwd_calls = 1
            /\ last'.payload = [name |-> last'.form.name,
                                email |-> last'.form.email,
                                message |-> last'.form.message,
                                ip |-> last'.ip, timestamp |-> now]]_vars

\* the user_agent column C12 describes for a request
C12_Sanitized(request) ==
    LET header == UserAgentHeader(request)
        kept == SelectSeq(header, IsSafeChar)
    IN  IF kept = <<>> THEN UNKNOWN_AGENT ELSE Prefix(kept, UserAgentLimit)

\* C12, as stated: every record written by home or by submit has a user_agent
\* that is not null, has at most 500 characters and is the sanitized
\* User-Agent header of the request, "Unknown" when the header is missing,
\* empty or left empty by the sanitization.
C12_UserAgentSanitizedOnBothPaths ==
    [][(Handles("home") \/ Handles("submit"))
         => \A r \in store' \ store :
              /\ r.user_agent # None
              /\ Len(r.user_agent) <= UserAgentLimit
              /\ r.user_agent = C12_Sanitized(last'.request)]_vars

\* the visit records of an address younger than the cooldown
C13_VisitsInCooldown(ip_address) ==
    {r \in store : /\ r.ip_address = ip_address
                   /\ r.form_data = NullJson
                   /\ r.timestamp > now - VISITOR_LOG_COOLDOWN_MINUTES}

\* the submission records of an address younger than an hour
C13_SubmissionsInHour(ip_address) ==
    {r \in store : /\ r.ip_address = ip_address
                   /\ r.form_data # NullJson
                   /\ r.timestamp > now - HourMinutes}

\* the INSERT of log_visitor is reached and works
C13_Writable(seen) ==
    TruthyStr(seen.ip) /\ seen.db = DbOk /\ ~GetRaises(seen.location)

\* C13: the two checks count disjoint kinds of record.  Whether an accepted
\* submission is written does not depend on the visit records (it is never
\* skipped as a duplicate); a visit is skipped exactly when a visit record of
\* its address is younger than the cooldown, whatever submission records
\* there are; and a submission is answered 429 exactly when the submission
\* records of its address in the last hour reach the quota (and the query is
\* evaluated), whatever visit records there are.
C13_ChecksCountDisjointKinds ==
    [][/\ (Handles("submit") /\ last'.status \notin {429, 400})
            => /\ last'.log # "skipped"
               /\ C13_Writable(last') <=> last'.log = "inserted"
               /\ C13_Writable(last')
                    => \E r \in store' \ store :
                         r.ip_address = last'.ip /\ r.form_data # NullJson
       /\ (Handles("home") /\ C13_Writable(last'))
            => IF C13_VisitsInCooldown(last'.ip) = {}
               THEN /\ last'.log = "inserted"
                    /\ \E r \in store' \ store :
                         r.ip_address = last'.ip /\ r.form_data = NullJson
               ELSE last'.log = "skipped" /\ store' = store
       /\ (Handles("submit") /\ last'.rate = DbOk)
            => (last'.status = 429
                  <=> Cardinality(C13_SubmissionsInHour(last'.ip))
                        >= MAX_FORM_SUBMISSIONS_PER_IP_PER_HOUR)]_vars

\* a visit written although an earlier submission record of its address is
\* younger than the cooldown
C13_VisitWrittenAfterSubmission ==
    /\ last.op = "home"
    /\ last.log = "inserted"
    /\ \E r \in store : /\ r.ip_address = last.ip
                        /\ r.form_data # NullJson
                        /\ r.timestamp < now
                        /\ r.timestamp > now - VISITOR_LOG_COOLDOWN_MINUTES

\* the workers that answer a visit
C14_Visitors == {i \in Workers : last[i].op = "home"}

\* the visitors whose lookup result log_visitor can project into a row
C14_Writers == {i \in C14_Visitors : ~GetRaises(last[i].location)}

\* the visit records written by the workers
C14_NewVisits == {r \in store \ ExistingRows : r.form_data = NullJson}

\* C14: when k requests of one address are handled concurrently, no record
\* that existed is changed or lost, every record added is a record of the
\* address and the instant, no worker is ever blocked, every request ends
\* with the status it can end with alone (200, or 429 for a submission), and
\* once all have ended the visit records added are at least the one a
\* sequential execution adds (one when some visit can be written, with no
\* visit record in the cooldown) and at most one for each visit.
C14_OnlyExtraRecords ==
    /\ ExistingRows \subseteq store
    /\ \A r \in store \ ExistingRows :
         r.ip_address = ClientIp[REQ_DIRECT] /\ r.timestamp = now
    /\ Cardinality(store \ ExistingRows)
         = Cardinality({i \in Workers : last[i].log = "inserted"})
    /\ \A i \in Workers :
         /\ last[i].pc # "done" => ENABLED Step(i)
         /\ last[i].pc = "done"
              => last[i].status \in (IF last[i].op = "home" THEN {200} ELSE {200, 429})
    /\ Cardinality(C14_NewVisits) <= Cardinality(C14_Visitors)
    /\ (\A i \in Workers : last[i].pc = "done")
         => /\ C14_Writers # {} => Cardinality(C14_NewVisits) >= 1
            /\ Cardinality(C14_NewVisits) <= Cardinality(C14_Writers)

\* two concurrent visits, both written
C14_MissedDedup ==
    /\ \A i \in Workers : last[i].pc = "done"
    /\ Cardinality(C14_Visitors) >= 2
    /\ Cardinality(C14_NewVisits) = Cardinality(C14_Visitors)

\* the order in which submit makes its calls
C15_Order == <<"rate", "validate", "geo", "log", "forward">>

\* C15, as stated: a submission makes its calls in the order rate-limit check,
\* validation, lookup, persistence, forwarding, stopping where it returns; a
\* submission of invalid fields from an address with
\* MAX_FORM_SUBMISSIONS_PER_IP_PER_HOUR submission records in the last hour is
\* answered 429; and a forwarding call is made only after log_visitor was
\* called.
C15_FixedOrder ==
    [][Handles("submit")
         => /\ last'.steps = Prefix(C15_Order, Len(last'.steps))
            /\ (/\ Cardinality(C13_SubmissionsInHour(last'.ip))
                     >= MAX_FORM_SUBMISSIONS_PER_IP_PER_HOUR
                /\ C5_Expected[last'.form] # {})
                 => last'.status = 429
            /\ last'.fwd_calls > 0 => last'.log # "n/a"]_vars

\* C15, amended: as C15_FixedOrder, with the over-quota invalid submission
\* answered 429 when the rate-limit query is evaluated and 400 when it is not.
C15_FixedOrderWhenCounted ==
    [][Handles("submit")
         => /\ last'.steps = Prefix(C15_Order, Len(last'.steps))
            /\ last'.steps # <<>>
            /\ (last'.status = 429) = (last'.steps = <<"rate">>)
            /\ (last'.status = 400) = (last'.steps = <<"rate", "validate">>)
            /\ (/\ Cardinality(C13_SubmissionsInHour(last'.ip))
                     >= MAX_FORM_SUBMISSIONS_PER_IP_PER_HOUR
                /\ C5_Expected[last'.form] # {})
                 => last'.status = (IF last'.rate = DbOk THEN 429 ELSE 400)
            /\ last'.fwd_calls > 0
                 => /\ last'.log # "n/a"
                    /\ last'.steps = C15_Order
                    /\ last'.geo_calls + last'.fwd_calls
                         = (IF NeedsLookup(last'.ip) THEN 2 ELSE 1)]_vars

\* an invalid submission over the quota, answered 429
C15_RejectedBeforeValidation ==
    /\ last.op = "submit"
    /\ last.status = 429
    /\ C5_Expected[last.form] # {}
    /\ Cardinality(C13_SubmissionsInHour(last.ip)) >= MAX_FORM_SUBMISSIONS_PER_IP_PER_HOUR

\* C16: a submission answered 429 adds no record, and a submission from an
\* address with fewer than MAX_FORM_SUBMISSIONS_PER_IP_PER_HOUR submission
\* records in the last hour is not answered 429, whatever the address sent
\* before: it is accepted when its fields are valid and answered 400 when
\* they are not.
C16_SlidingWindowRecovery ==
    [][Handles("submit")
         => /\ last'.status = 429 => store' = store /\ nextId' = nextId
            /\ Cardinality(C13_SubmissionsInHour(last'.ip))
                 < MAX_FORM_SUBMISSIONS_PER_IP_PER_HOUR
                 => /\ last'.status # 429
                    /\ (last'.status = 400) = (C5_Expected[last'.form] # {})]_vars

\* a submission accepted from an address that has
\* MAX_FORM_SUBMISSIONS_PER_IP_PER_HOUR submission records, all an hour old
C16_AcceptedAfterTheHour ==
    /\ last.op = "submit"
    /\ last.rate = DbOk
    /\ last.status = 200
    /\ last.log = "inserted"
    /\ Cardinality({r \in store : /\ r.ip_address = last.ip
                                  /\ r.form_data # NullJson
                                  /\ r.timestamp <= now - HourMinutes})
         >= MAX_FORM_SUBMISSIONS_PER_IP_PER_HOUR

\* C17, as stated: when the table works and the request is one that writes
\* (any accepted submission, a visit with no visit record in the cooldown), a
\* lookup that returned None ends with one new record whose country and
\* latitude are null, and a lookup that returned a record, the local record
\* included, ends with one new record whose country and latitude are those
\* of the lookup's record.
C17_GeoFieldsProjected ==
    [][(/\ \/ Handles("submit") /\ last'.status \notin {429, 400}
           \/ Handles("home") /\ C13_VisitsInCooldown(last'.ip) = {}
        /\ TruthyStr(last'.ip)
        /\ last'.db = DbOk
        /\ last'.location.type \in {"None", "dict"})
         => /\ last'.status = 200
            /\ \E r \in store' \ store :
                 /\ store' = store \cup {r}
                 /\ r.ip_address = last'.ip
                 /\ IF last'.location.type = "None"
                    THEN r.country = NULL /\ r.latitude = NULL
                    ELSE /\ r.country = last'.location.country_name
                         /\ r.latitude = last'.location.latitude]_vars

\* the characters of s before its first comma
C18_FirstEntry(s) ==
    SubSeq(s, 1, Cardinality({i \in 1..Len(s) : \A j \in 1..i : s[j] # ","}))

\* the address the precedence of C18 picks, for each request
C18_Extracted ==
    [request \in AllRequests |->
        IF request.xff \notin {None, <<>>} THEN Strip(C18_FirstEntry(request.xff))
        ELSE IF request.real_ip \notin {None, <<>>} THEN request.real_ip
        ELSE request.remote_addr]

\* C18: the address of a request is the trimmed first entry of a non-empty
\* X-Forwarded-For, else a non-empty X-Real-IP, else the connection's
\* address, and that address is the one the handlers use: a submission is
\* refused by the rate limit exactly when that address has
\* MAX_FORM_SUBMISSIONS_PER_IP_PER_HOUR submission records in the hour, a
\* visit is skipped exactly when that address has a visit record in the
\* cooldown, the lookup service is called exactly when that address is
\* neither empty nor local, and the record written and the payload forwarded
\* carry that address.
C18_ExtractedAddressIsTheKey ==
    [][(Handles("home") \/ Handles("submit"))
         => LET ip == C18_Extracted[last'.request]
            IN  /\ last'.ip = ip
                /\ \A r \in store' \ store : r.ip_address = ip
                /\ Handles("submit")
                     => /\ (last'.status = 429)
                              = (Cardinality(C13_SubmissionsInHour(ip))
                                   >= MAX_FORM_SUBMISSIONS_PER_IP_PER_HOUR)
                        /\ last'.fwd_calls = 1 => last'.payload.ip = ip
                /\ (Handles("home") /\ ip \notin {None, <<>>})
                     => (last'.log = "skipped") = (C13_VisitsInCooldown(ip) # {})
                /\ "geo" \in {last'.steps[i] : i \in 1..Len(last'.steps)}
                     => /\ last'.geo_calls
                             = (IF ip \in {None, <<>>, IP_LOOPBACK4, IP_LOCALHOST,
                                           IP_LOOPBACK6}
                                THEN 0 ELSE 1)
                        /\ (last'.geo_calls = 0) = (last'.location = LocalRecord)]_vars

\* a submission through a proxy, written under the first address of
\* X-Forwarded-For, which is neither X-Real-IP nor the connection's address
C18_ForwardedForUsed ==
    /\ last.op = "submit"
    /\ last.request = REQ_PROXIED
    /\ last.request.real_ip # IP_B /\ last.request.remote_addr # IP_B
    /\ last.log = "inserted"
    /\ \E r \in store : r.id = nextId - 1 /\ r.ip_address = IP_B

\* text contains one of the seven phrases
C19_HasPhrase(text) == \E phrase \in spam_keywords : Contains(phrase, text)

\* text contains a letter a-z or a digit five times in a row
C19_HasRun(text) ==
    \E i \in 1..(Len(text) - 4) :
        /\ text[i] \in LowerAlpha \cup Digits
        /\ \A j \in 1..4 : text[i + j] = text[i]

\* what the heuristic finds in the fields of each form the clients send: in
\* the three fields written one after the other, in the three fields joined
\* by single spaces, and in each field alone
C19_Found ==
    [fields \in {Fields[form] : form \in AllForms} |->
        LET name == Lower(fields.name)
            email == Lower(fields.email)
            message == Lower(fields.message)
            concatenated == name \o email \o message
            joined == name \o <<" ">> \o email \o <<" ">> \o message
        IN  [concatenated |-> C19_HasPhrase(concatenated) \/ C19_HasRun(concatenated),
             phrase |-> C19_HasPhrase(joined),
             run |-> C19_HasRun(joined),
             run_in_a_field |-> \E field \in {name, email, message} : C19_HasRun(field)]]

C19_Suspicious(errors) ==
    \E i \in 1..Len(errors) : errors[i] \in {ERR_SPAM, ERR_PATTERN}

\* C19, as stated: a submission that passes the rate-limit check is rejected
\* by the spam heuristic exactly when the lower-cased text name+email+message,
\* the three fields written one after the other, contains one of the seven
\* phrases or five equal letters or digits in a row.
C19_JudgedOnConcatenation ==
    [][(Handles("submit") /\ last'.status # 429)
         => C19_Suspicious(last'.errors) = C19_Found[last'.form].concatenated]_vars

\* C19, amended: the heuristic judges the lower-cased text
\* name + ' ' + email + ' ' + message: the phrase message is given exactly
\* when that text contains one of the seven phrases, the pattern message
\* exactly when it contains five equal letters a-z or digits in a row, which
\* is exactly when one of the three fields alone does; a submission with
\* either message is answered 400.
C19_JudgedOnJoinedFields ==
    [][(Handles("submit") /\ last'.status # 429)
         => LET found == C19_Found[last'.form]
                given == {last'.errors[i] : i \in 1..Len(last'.errors)}
            IN  /\ (ERR_SPAM \in given) = found.phrase
                /\ (ERR_PATTERN \in given) = found.run
                /\ found.run = found.run_in_a_field
                /\ C19_Suspicious(last'.errors) => last'.status = 400]_vars

\* a submission rejected for a phrase that begins in the name and ends in
\* the email address
C19_PhraseAcrossFields ==
    /\ last.op = "submit"
    /\ last.status = 400
    /\ last.errors = <<ERR_SPAM>>
    /\ ~C19_HasPhrase(Lower(last.form.name))
    /\ ~C19_HasPhrase(Lower(last.form.email))
    /\ ~C19_HasPhrase(Lower(last.form.message))

\* the number of submission records of an address in the hour that ends at
\* instant t, in table rows
C20_Count(rows, ip_address, t) ==
    Cardinality({r \in rows : /\ r.ip_address = ip_address
                              /\ r.form_data # NullJson
                              /\ r.timestamp > t - HourMinutes
                              /\ r.timestamp <= t})

\* C20, as stated: at every instant no address has more than
\* MAX_FORM_SUBMISSIONS_PER_IP_PER_HOUR submission records in the hour that
\* ends at that instant or at any earlier instant at which a record was
\* written.
C20_QuotaNeverExceeded ==
    \A r \in store : \A t \in {now} \cup {q.timestamp : q \in store} :
        C20_Count(store, r.ip_address, t) <= MAX_FORM_SUBMISSIONS_PER_IP_PER_HOUR

\* C20, amended: the number of submission records of an address in the
\* trailing hour grows only by one, and only by an accepted submission of
\* that address; a submission whose rate-limit query was evaluated never
\* leaves its address with more than MAX_FORM_SUBMISSIONS_PER_IP_PER_HOUR, so
\* the quota is exceeded only by submissions let through while that query
\* failed; visits, cleanups, refreshes, rejected submissions and the passing
\* of time never raise a count.
C20_QuotaExceededOnlyOnFailedCheck ==
    [][\A r \in store' :
         LET ip == r.ip_address
         IN  C20_Count(store', ip, now') > C20_Count(store, ip, now)
               => /\ Handles("submit")
                  /\ last'.ip = ip
                  /\ last'.status \notin {429, 400}
                  /\ C20_Count(store', ip, now') = C20_Count(store, ip, now) + 1
                  /\ last'.rate = DbOk
                       => C20_Count(store', ip, now')
                            <= MAX_FORM_SUBMISSIONS_PER_IP_PER_HOUR]_vars

\* the submission that fills the quota of its address, its rate-limit query
\* evaluated
C20_QuotaFilled ==
    /\ last.op = "submit"
    /\ last.rate = DbOk
    /\ last.log = "inserted"
    /\ C20_Count(store, last.ip, now) = MAX_FORM_SUBMISSIONS_PER_IP_PER_HOUR

\* the extracted address of a request is null or empty
C21_NoAddress(request) == C18_Extracted[request] \in {None, <<>>}

\* C21: every record of the table has an ip_address that is neither null nor
\* empty, and a visit or a submission whose extracted address is null or
\* empty leaves the table as it was while the request completes: no lookup
\* is made, log_visitor returns at its first line, a visit is answered 200,
\* and a submission is never refused by the rate limit, is answered 400
\* exactly when its fields are invalid, and otherwise is forwarded once with
\* that address and answered 200.
C21_EveryRecordHasAnAddress ==
    /\ [](\A r \in store : r.ip_address # None /\ Len(r.ip_address) > 0)
    /\ [][((Handles("home") \/ Handles("submit")) /\ C21_NoAddress(last'.request))
            => /\ store' = store /\ nextId' = nextId
               /\ last'.ip \in {None, <<>>}
               /\ last'.geo_calls = 0
               /\ Handles("home")
                    => last'.status = 200 /\ last'.log = "no_ip"
               /\ Handles("submit")
                    => IF C5_Expected[last'.form] # {}
                       THEN last'.status = 400
                       ELSE /\ last'.status = 200
                            /\ last'.log = "no_ip"
                            /\ last'.fwd_calls = 1
                            /\ last'.payload.ip = last'.ip]_vars

\* a submission without an address, forwarded and answered while the table
\* keeps the records of other clients only
C21_AnsweredWithoutRecord ==
    /\ last.op = "submit"
    /\ C21_NoAddress(last.request)
    /\ last.status = 200
    /\ last.log = "no_ip"
    /\ last.fwd_calls = 1
    /\ store # {}

====
